---------------------------- MODULE Spec2Model ----------------------------
(***************************************************************************)
(* Game of Pure Strategy (GOPS) solver.                                    *)
(*                                                                         *)
(* The module models three programs of the repository and two of their    *)
(* data types:                                                             *)
(*   - gops.py: GameState, get_strategies_for_possible_top_cards,          *)
(*     optimize_player_strategy (the linear program) and the orchestrator  *)
(*     get_optimal_game_strategy;                                          *)
(*   - payoff_matrix.py: its own GameState, ValueCache and the             *)
(*     orchestrator compute_payoff_matrix;                                 *)
(*   - strategy.py: find_nash_equilibrium and its two linear programs.     *)
(*                                                                         *)
(* Python floats are modelled by exact rationals <<numerator, denominator>>*)
(* in lowest terms with a positive denominator.                            *)
(***************************************************************************)
EXTENDS Integers, Sequences, FiniteSets, TLC

VARIABLES
    \* ---- gops.py, get_optimal_game_strategy ----
    game_size,            \* the argument
    pc,                   \* position in get_optimal_game_strategy
    n_cards,              \* loop variable of the level loop
    cached_game_values,   \* dict GameState -> value of the previous level
    game_values,          \* dict GameState -> value of the current level
    it,                   \* number of states the of_size iterator has yielded
    game_state,           \* the state being resolved
    strategies,           \* dict top card -> Strategy (being built / returned)
    outcome,              \* "running", "returned" or the exception raised
    \* ---- payoff_matrix.py, compute_payoff_matrix ----
    max_cards,            \* the argument
    pm_pc,                \* position in compute_payoff_matrix
    pm_n_cards,           \* loop variable of the level loop
    previous_value_cache, \* ValueCache.values of the previous level
    current_value_cache,  \* ValueCache.values of the current level
    pm_it,                \* number of states the of_size iterator has yielded
    matrix,               \* dict (player move, opponent move) -> list / mean
    pm_outcome,           \* "running", "returned" or the exception raised
    \* ---- gops.py, GameState used on its own ----
    s,                    \* a GameState value
    before,               \* the receiver of the last GameState method call
    op,                   \* the last GameState method call and its arguments
    \* ---- payoff_matrix.py, ValueCache used on its own ----
    values,               \* ValueCache.values
    ret,                  \* what the last ValueCache call returned or raised
    \* ---- strategy.py, find_nash_equilibrium ----
    nash_max_card,        \* the argument max_card
    nash_payoff_matrix,   \* the argument payoff_matrix
    nash_pc,              \* position in find_nash_equilibrium
    player_lp,            \* var_by_name("v").x of the solved player program
    opponent_lp,          \* var_by_name("v").x of the solved opponent program
    nash_outcome          \* "running", "returned" or the exception raised

gops_vars == <<game_size, pc, n_cards, cached_game_values, game_values, it,
               game_state, strategies, outcome>>
pm_vars == <<max_cards, pm_pc, pm_n_cards, previous_value_cache,
             current_value_cache, pm_it, matrix, pm_outcome>>
state_vars == <<s, before, op>>
cache_vars == <<values, ret>>
nash_vars == <<nash_max_card, nash_payoff_matrix, nash_pc, player_lp,
               opponent_lp, nash_outcome>>
vars == <<gops_vars, pm_vars, state_vars, cache_vars, nash_vars>>
NotGops == <<pm_vars, state_vars, cache_vars, nash_vars>>
NotPm == <<gops_vars, state_vars, cache_vars, nash_vars>>
NotState == <<gops_vars, pm_vars, cache_vars, nash_vars>>
NotCache == <<gops_vars, pm_vars, state_vars, nash_vars>>
NotNash == <<gops_vars, pm_vars, state_vars, cache_vars>>

-----------------------------------------------------------------------------
(* Bounds *)

\* cards of the free-standing GameState values are drawn from 1..MaxCard
MaxCard == 3
\* cards of the states used as ValueCache keys are drawn from 1..CacheMaxCard
CacheMaxCard == 2
\* a free-standing ValueCache holds at most MaxCacheKeys keys
MaxCacheKeys == 1
\* compute_payoff_matrix is run for every max_cards in 0..MaxCards
MaxCards == 3
\* find_nash_equilibrium is called with every max_card in 1..NashMaxCard
NashMaxCard == 2

-----------------------------------------------------------------------------
(* Exact rationals standing for Python floats *)

Abs(i) == IF i < 0 THEN -i ELSE i

RECURSIVE Gcd(_, _)
Gcd(a, b) == IF b = 0 THEN a ELSE Gcd(b, a % b)

Lcm(a, b) == (a \div Gcd(a, b)) * b

\* the rational n/d (d # 0) in lowest terms with positive denominator
Rat(n, d) ==
    LET g == Gcd(Abs(n), Abs(d))
        sg == IF d < 0 THEN -1 ELSE 1
    IN  <<sg * (n \div g), sg * (d \div g)>>

RInt(i) == <<i, 1>>
RZero == <<0, 1>>
ROne == <<1, 1>>
RAdd(a, b) == Rat(a[1] * b[2] + b[1] * a[2], a[2] * b[2])
RNeg(a) == <<-a[1], a[2]>>
RDivInt(a, k) == Rat(a[1], a[2] * k)
RLeq(a, b) == a[1] * b[2] <= b[1] * a[2]
RLess(a, b) == a[1] * b[2] < b[1] * a[2]

\* sum(list) for a list of floats
RECURSIVE RSumSeq(_)
RSumSeq(q) == IF q = <<>> THEN RZero ELSE RAdd(q[1], RSumSeq(Tail(q)))

\* the sum of f[k] over k \in S, f a dict of floats
RECURSIVE RSumOver(_, _)
RSumOver(f, S) ==
    IF S = {} THEN RZero
    ELSE LET k == CHOOSE x \in S : TRUE
         IN  RAdd(f[k], RSumOver(f, S \ {k}))

-----------------------------------------------------------------------------
(* itertools *)

\* the elements of a finite set of integers in increasing order
RECURSIVE SortedSeq(_)
SortedSeq(S) ==
    IF S = {} THEN <<>>
    ELSE LET m == CHOOSE x \in S : \A y \in S : x <= y
         IN  <<m>> \o SortedSeq(S \ {m})

\* itertools.combinations(range(lo, hi + 1), r): the r-element increasing
\* tuples over lo..hi in lexicographic order
RECURSIVE combinations(_, _, _)
combinations(lo, hi, r) ==
    IF r = 0 THEN << <<>> >>
    ELSE IF hi - lo + 1 < r THEN <<>>
    ELSE LET with == combinations(lo + 1, hi, r - 1)
         IN  [k \in 1..Len(with) |-> <<lo>> \o with[k]]
               \o combinations(lo + 1, hi, r)

\* itertools.permutations(range(1, hi + 1), r) restricted to the cards of
\* `free`: the r-tuples of distinct cards in lexicographic order
RECURSIVE permutations(_, _)
permutations(free, r) ==
    IF r = 0 THEN << <<>> >>
    ELSE LET cards == SortedSeq(free)
             RECURSIVE from(_)
             from(k) ==
                 IF k > Len(cards) THEN <<>>
                 ELSE LET rest == permutations(free \ {cards[k]}, r - 1)
                      IN  [j \in 1..Len(rest) |-> <<cards[k]>> \o rest[j]]
                            \o from(k + 1)
         IN  from(1)

\* itertools.combinations_with_replacement(q, 2): the pairs <<q[i], q[j]>>,
\* i <= j, in lexicographic order of (i, j)
RECURSIVE combinations_with_replacement_2(_, _)
combinations_with_replacement_2(q, i) ==
    IF i > Len(q) THEN <<>>
    ELSE [k \in 1..(Len(q) - i + 1) |-> <<q[i], q[i + k - 1]>>]
           \o combinations_with_replacement_2(q, i + 1)

Range(q) == {q[k] : k \in 1..Len(q)}

\* card_range(max_card) as a set
card_range(max_card) == 1..max_card

-----------------------------------------------------------------------------
(* gops.py: GameState *)

GameState(player_cards, opponent_cards, deck_cards) ==
    [player_cards |-> player_cards, opponent_cards |-> opponent_cards,
     deck_cards |-> deck_cards]

empty == GameState({}, {}, {})

\* after_round that takes the player's move out of the opponent's hand
after_round_bug(self, revealed_card, player_move, opponent_move) ==
    LET remaining_deck == self.deck_cards \ {revealed_card}
        remaining_player == self.player_cards \ {player_move}
        remaining_opponent == self.opponent_cards \ {player_move}
    IN  GameState(remaining_player, remaining_opponent, remaining_deck)

after_round(self, revealed_card, player_move, opponent_move) ==
    LET remaining_deck == self.deck_cards \ {revealed_card}
        remaining_player == self.player_cards \ {player_move}
        remaining_opponent == self.opponent_cards \ {opponent_move}
    IN  GameState(remaining_player, remaining_opponent, remaining_deck)

\* opposite that swaps nothing
opposite_bug(self) ==
    GameState(self.player_cards, self.opponent_cards, self.deck_cards)

opposite(self) ==
    GameState(self.opponent_cards, self.player_cards, self.deck_cards)

\* GameState.of_size as the sequence of the states it yields
of_size(size, max_card) ==
    LET hands == combinations(1, max_card, size)
        possible_player_cards == combinations_with_replacement_2(hands, 1)
        possible_decks == combinations(1, max_card, size)
        np == Len(possible_player_cards)
        nd == Len(possible_decks)
    IN  [k \in 1..(np * nd) |->
            LET pair == possible_player_cards[((k - 1) \div nd) + 1]
                deck == possible_decks[((k - 1) % nd) + 1]
            IN  GameState(Range(pair[1]), Range(pair[2]), Range(deck))]

-----------------------------------------------------------------------------
(* GameState values used on their own: any three sets of cards make a      *)
(* GameState, the dataclass of gops.py validates nothing at construction.  *)

IdleOp == [name |-> "none", revealed_card |-> 0, player_move |-> 0,
           opponent_move |-> 0, result |-> "none"]

StateIdle == s = empty /\ before = empty /\ op = IdleOp
CacheIdle == values = <<>> /\ ret = [call |-> "none", kind |-> "none"]

StateInit ==
    /\ s \in {GameState(p, o, d) : p \in SUBSET card_range(MaxCard),
                                   o \in SUBSET card_range(MaxCard),
                                   d \in SUBSET card_range(MaxCard)}
    /\ before = s
    /\ op = IdleOp

\* s.opposite()
Opposite ==
    /\ UNCHANGED NotState
    /\ before' = s
    /\ s' = opposite(s)
    /\ op' = [IdleOp EXCEPT !.name = "opposite", !.result = "returned"]

\* s.after_round(revealed_card, player_move, opponent_move): the method has
\* no validation and no raise, it returns a state for every argument
AfterRound(revealed_card, player_move, opponent_move) ==
    /\ UNCHANGED NotState
    /\ before' = s
    /\ s' = after_round(s, revealed_card, player_move, opponent_move)
    /\ op' = [name |-> "after_round", revealed_card |-> revealed_card,
              player_move |-> player_move, opponent_move |-> opponent_move,
              result |-> "returned"]

-----------------------------------------------------------------------------
(* gops.py: the linear program of optimize_player_strategy                 *)

\* sign with the zero case folded into the positive one
sign_bug(i) == IF i >= 0 THEN 1 ELSE -1

sign(i) == IF i > 0 THEN 1 ELSE IF i = 0 THEN 0 ELSE -1

\* a Python dict with one more (or one replaced) item
DictSet(d, key, value) ==
    [k \in (DOMAIN d) \cup {key} |-> IF k = key THEN value ELSE d[k]]

Strategy(card_probabilities, expected_value) ==
    [card_probabilities |-> card_probabilities,
     expected_value |-> expected_value]

\* determinant of a square integer matrix given as a sequence of rows
RECURSIVE Det(_)
Det(M) ==
    LET n == Len(M)
        Minor(c) == [r \in 1..(n - 1) |->
                        [k \in 1..(n - 1) |-> M[r + 1][IF k < c THEN k ELSE k + 1]]]
        RECURSIVE Expand(_)
        Expand(c) ==
            IF c > n THEN 0
            ELSE (IF c % 2 = 1 THEN 1 ELSE -1) * M[1][c] * Det(Minor(c))
                   + Expand(c + 1)
    IN  IF n = 0 THEN 1 ELSE IF n = 1 THEN M[1][1] ELSE Expand(1)

\* the least common denominator of the entries of a payoff matrix
RECURSIVE CommonDenominator(_, _)
CommonDenominator(payoff_matrix, keys) ==
    IF keys = {} THEN 1
    ELSE LET k == CHOOSE x \in keys : TRUE
         IN  Lcm(payoff_matrix[k][2],
                 CommonDenominator(payoff_matrix, keys \ {k}))

\* The basic solution of the program in which exactly the variables x_card,
\* card in I, may be non-zero and exactly the constraints
\* strategy_against_card, card in J, are tight (Len(I) = Len(J)):
\*     sum_i payoff[i, j] * x_i - v = 0  for j in J,   sum_i x_i = 1
\* solved by Cramer's rule on the matrix scaled to integers by L.
\* The result is a record: det = 0 when the system is singular, otherwise
\* x (numerators of x_i over det, in the order of I) and v (numerator of
\* L * v over det).
BasicSolution(I, J, payoff_matrix, L) ==
    LET r == Len(I)
        a(i, j) == payoff_matrix[<<i, j>>][1] * (L \div payoff_matrix[<<i, j>>][2])
        M == [row \in 1..(r + 1) |->
                [col \in 1..(r + 1) |->
                    IF row <= r
                    THEN IF col <= r THEN a(I[col], J[row]) ELSE -1
                    ELSE IF col <= r THEN 1 ELSE 0]]
        b == [row \in 1..(r + 1) |-> IF row <= r THEN 0 ELSE 1]
        Replaced(c) == [row \in 1..(r + 1) |->
                          [col \in 1..(r + 1) |->
                              IF col = c THEN b[row] ELSE M[row][col]]]
        d == Det(M)
        sd == sign(d)
    IN  IF d = 0 THEN [det |-> 0, x |-> <<>>, v |-> 0]
        ELSE [det |-> sd * d,
              x |-> [k \in 1..r |-> sd * Det(Replaced(k))],
              v |-> sd * Det(Replaced(r + 1))]

\* the program with free variables x (lb=-INF as for v)
Feasible_bug(sol, I, opponent_cards, payoff_matrix, L) ==
    LET a(i, j) == payoff_matrix[<<i, j>>][1] * (L \div payoff_matrix[<<i, j>>][2])
        RECURSIVE Row(_, _)
        Row(j, k) == IF k > Len(I) THEN 0
                     ELSE a(I[k], j) * sol.x[k] + Row(j, k + 1)
    IN  /\ sol.det # 0
        /\ \A j \in opponent_cards : Row(j, 1) - sol.v >= 0

\* x >= 0 (the default lower bound of add_var) and every constraint
\* strategy_against_card holds
Feasible(sol, I, opponent_cards, payoff_matrix, L) ==
    LET a(i, j) == payoff_matrix[<<i, j>>][1] * (L \div payoff_matrix[<<i, j>>][2])
        RECURSIVE Row(_, _)
        Row(j, k) == IF k > Len(I) THEN 0
                     ELSE a(I[k], j) * sol.x[k] + Row(j, k + 1)
    IN  /\ sol.det # 0
        /\ \A k \in 1..Len(I) : sol.x[k] >= 0
        /\ \A j \in opponent_cards : Row(j, 1) - sol.v >= 0

\* the vertices of the feasible region of the program, as Strategy values
LpVertices(player_cards, opponent_cards, payoff_matrix) ==
    LET L == CommonDenominator(payoff_matrix, player_cards \X opponent_cards)
        supports == {IJ \in (SUBSET player_cards) \X (SUBSET opponent_cards) :
                        /\ IJ[1] # {}
                        /\ Cardinality(IJ[1]) = Cardinality(IJ[2])}
        Solve(IJ) == BasicSolution(SortedSeq(IJ[1]), SortedSeq(IJ[2]),
                                   payoff_matrix, L)
        AsStrategy(IJ) ==
            LET I == SortedSeq(IJ[1])
                sol == Solve(IJ)
                Index(card) == CHOOSE k \in 1..Len(I) : I[k] = card
            IN  Strategy([card \in player_cards |->
                            IF card \in IJ[1]
                            THEN Rat(sol.x[Index(card)], sol.det)
                            ELSE RZero],
                         Rat(sol.v, sol.det * L))
    IN  {AsStrategy(IJ) : IJ \in {K \in supports :
            Feasible(Solve(K), SortedSeq(K[1]), opponent_cards, payoff_matrix, L)}}

\* optimize_player_strategy: the set of Strategy values the solver may return,
\* the optimal vertices of the program (the simplex method returns a vertex,
\* which one of several optimal vertices is the solver's choice).  The set is
\* empty when the solver does not report OPTIMAL, in which case the function
\* raises RuntimeError.
optimize_player_strategy(player_cards, opponent_cards, payoff_matrix) ==
    LET vertices == LpVertices(player_cards, opponent_cards, payoff_matrix)
    IN  {st \in vertices :
            \A other \in vertices :
                RLeq(other.expected_value, st.expected_value)}

-----------------------------------------------------------------------------
(* gops.py: get_strategies_for_possible_top_cards                          *)

\* cached_game_values.get(continuation) is None and
\* cached_game_values[continuation.opposite()] raises KeyError
CacheMiss(cache, continuation) ==
    /\ continuation \notin DOMAIN cache
    /\ opposite(continuation) \notin DOMAIN cache

\* the lookup without the negation of the opposite's value
ContinuationValue_bug(cache, continuation) ==
    IF continuation \in DOMAIN cache
    THEN cache[continuation]
    ELSE cache[opposite(continuation)]

\* lines 198-200: the cached value of the continuation, or the negated value
\* of its opposite
ContinuationValue(cache, continuation) ==
    IF continuation \in DOMAIN cache
    THEN cache[continuation]
    ELSE RNeg(cache[opposite(continuation)])

\* some continuation lookup of the payoff matrix of top_card raises KeyError
MatrixMiss(state, top_card, cache) ==
    \E player_move \in state.player_cards, opponent_move \in state.opponent_cards :
        CacheMiss(cache, after_round(state, top_card, player_move, opponent_move))

\* lines 188-204: the payoff matrix of the round in which top_card is revealed
PayoffMatrix(state, top_card, cache) ==
    [move \in state.player_cards \X state.opponent_cards |->
        LET player_move == move[1]
            opponent_move == move[2]
            move_value == IF player_move = opponent_move
                          THEN 0
                          ELSE top_card * sign(player_move - opponent_move)
            continuation == after_round(state, top_card, player_move, opponent_move)
        IN  RAdd(RInt(move_value), ContinuationValue(cache, continuation))]

\* lines 171-184: the only possible strategy of a state with one deck card
OnlyPossibleStrategy(state) ==
    LET player_move == CHOOSE c \in state.player_cards : TRUE
        opponent_move == CHOOSE c \in state.opponent_cards : TRUE
        top_card == CHOOSE c \in state.deck_cards : TRUE
        move_value == top_card * sign(player_move - opponent_move)
    IN  Strategy([c \in {player_move} |-> ROne], RInt(move_value))

\* the Strategy values line 210 may assign to strategies[top_card]
TopCardStrategies(state, top_card, cache) ==
    optimize_player_strategy(state.player_cards, state.opponent_cards,
                             PayoffMatrix(state, top_card, cache))

\* get_strategies_for_possible_top_cards raises KeyError
StrategiesMiss(state, cache) ==
    /\ Cardinality(state.deck_cards) > 1
    /\ \E top_card \in state.deck_cards : MatrixMiss(state, top_card, cache)

\* get_strategies_for_possible_top_cards: the dicts the function may return
\* when it raises nothing
get_strategies_for_possible_top_cards(state, cache) ==
    IF Cardinality(state.deck_cards) = 0 THEN {<<>>}
    ELSE IF Cardinality(state.deck_cards) = 1
    THEN {[top_card \in state.deck_cards |-> OnlyPossibleStrategy(state)]}
    ELSE LET per_card == [top_card \in state.deck_cards |->
                             TopCardStrategies(state, top_card, cache)]
         IN  {f \in [state.deck_cards -> UNION {per_card[t] : t \in state.deck_cards}] :
                 \A t \in state.deck_cards : f[t] \in per_card[t]}

\* lines 240-243: sum(strategy_values) / len(strategies)
GameValue(strats) ==
    RDivInt(RSumOver([t \in DOMAIN strats |-> strats[t].expected_value],
                     DOMAIN strats),
            Cardinality(DOMAIN strats))

-----------------------------------------------------------------------------
(* gops.py: get_optimal_game_strategy                                      *)

\* the deck sizes of E2E_TESTS
E2E_TESTS == {1, 2, 3}

\* the deck sizes the orchestrator is run for: those of its tests, and the
\* sizes 0 and -1 below the smallest deck
GameSizes == E2E_TESTS \cup {0, -1}

PmIdle ==
    /\ max_cards = 0 /\ pm_pc = "idle" /\ pm_n_cards = 0
    /\ previous_value_cache = <<>> /\ current_value_cache = <<>>
    /\ pm_it = 0 /\ matrix = <<>> /\ pm_outcome = "idle"

GopsIdle ==
    /\ game_size = 0 /\ pc = "idle" /\ n_cards = 0
    /\ cached_game_values = <<>> /\ game_values = <<>>
    /\ it = 0 /\ game_state = empty /\ strategies = <<>> /\ outcome = "idle"

GopsInit ==
    /\ game_size \in GameSizes
    /\ pc = "start"
    /\ n_cards = 0
    /\ cached_game_values = <<>>
    /\ game_values = <<>>
    /\ it = 0
    /\ game_state = empty
    /\ strategies = <<>>
    /\ outcome = "running"

\* line 229, and entering the level loop of line 230 or skipping it
Start ==
    /\ UNCHANGED NotGops
    /\ pc = "start"
    /\ cached_game_values' = [st \in {empty} |-> RZero]
    /\ IF game_size - 1 >= 1
       THEN /\ pc' = "level"
            /\ n_cards' = 1
       ELSE /\ pc' = "final"
            /\ n_cards' = n_cards
    /\ game_values' = <<>>
    /\ it' = 0
    /\ UNCHANGED <<game_size, game_state, strategies, outcome>>

\* line 236: the iterator yields the next state of the level, and
\* get_strategies_for_possible_top_cards is called with it
NextState ==
    /\ UNCHANGED NotGops
    /\ pc = "level"
    /\ it < Len(of_size(n_cards, game_size))
    /\ game_state' = of_size(n_cards, game_size)[it + 1]
    /\ it' = it + 1
    /\ strategies' = <<>>
    /\ pc' = "strategies"
    /\ UNCHANGED <<game_size, n_cards, cached_game_values, game_values, outcome>>

InStrategies == pc \in {"strategies", "final_strategies"}
AfterStrategies == IF pc = "strategies" THEN "value" ELSE "return"

\* lines 168-184: the deck is empty or holds one card, and the function returns
StrategiesBase ==
    /\ UNCHANGED NotGops
    /\ InStrategies
    /\ Cardinality(game_state.deck_cards) <= 1
    /\ strategies' \in get_strategies_for_possible_top_cards(game_state,
                                                            cached_game_values)
    /\ pc' = AfterStrategies
    /\ UNCHANGED <<game_size, n_cards, cached_game_values, game_values, it,
                   game_state, outcome>>

\* lines 187-215: one iteration of the loop over the deck cards; the order in
\* which a frozenset yields its cards is not specified
StrategiesTopCard(top_card) ==
    /\ UNCHANGED NotGops
    /\ InStrategies
    /\ Cardinality(game_state.deck_cards) > 1
    /\ top_card \in game_state.deck_cards \ DOMAIN strategies
    /\ IF MatrixMiss(game_state, top_card, cached_game_values)
       THEN /\ pc' = "error"
            /\ outcome' = "KeyError"
            /\ strategies' = strategies
       ELSE IF TopCardStrategies(game_state, top_card, cached_game_values) = {}
       THEN /\ pc' = "error"
            /\ outcome' = "RuntimeError"
            /\ strategies' = strategies
       ELSE /\ \E strategy \in TopCardStrategies(game_state, top_card,
                                                 cached_game_values) :
                  strategies' = DictSet(strategies, top_card, strategy)
            /\ pc' = pc
            /\ outcome' = outcome
    /\ UNCHANGED <<game_size, n_cards, cached_game_values, game_values, it,
                   game_state>>

\* line 217: every deck card has its strategy, the function returns
StrategiesReturn ==
    /\ UNCHANGED NotGops
    /\ InStrategies
    /\ Cardinality(game_state.deck_cards) > 1
    /\ DOMAIN strategies = game_state.deck_cards
    /\ pc' = AfterStrategies
    /\ UNCHANGED <<game_size, n_cards, cached_game_values, game_values, it,
                   game_state, strategies, outcome>>

\* the store into a dict that is also the cache the level reads (one dict
\* created before the loop and never replaced)
StoreValue_bug ==
    /\ UNCHANGED NotGops
    /\ pc = "value"
    /\ IF Cardinality(DOMAIN strategies) = 0
       THEN /\ pc' = "error"
            /\ outcome' = "ZeroDivisionError"
            /\ UNCHANGED <<game_values, cached_game_values>>
       ELSE /\ game_values' = DictSet(game_values, game_state, GameValue(strategies))
            /\ cached_game_values' = DictSet(cached_game_values, game_state,
                                             GameValue(strategies))
            /\ pc' = "level"
            /\ outcome' = outcome
    /\ UNCHANGED <<game_size, n_cards, it, game_state, strategies>>

\* lines 240-244: the value of the state is the mean of the expected values
StoreValue ==
    /\ UNCHANGED NotGops
    /\ pc = "value"
    /\ IF Cardinality(DOMAIN strategies) = 0
       THEN /\ pc' = "error"
            /\ outcome' = "ZeroDivisionError"
            /\ game_values' = game_values
       ELSE /\ game_values' = DictSet(game_values, game_state, GameValue(strategies))
            /\ pc' = "level"
            /\ outcome' = outcome
    /\ UNCHANGED <<game_size, n_cards, cached_game_values, it, game_state,
                   strategies>>

\* the end of a level that leaves cached_game_values as it was
EndLevel_bug ==
    /\ UNCHANGED NotGops
    /\ pc = "level"
    /\ it = Len(of_size(n_cards, game_size))
    /\ cached_game_values' = cached_game_values
    /\ IF n_cards + 1 <= game_size - 1
       THEN /\ n_cards' = n_cards + 1
            /\ game_values' = <<>>
            /\ it' = 0
            /\ pc' = "level"
       ELSE /\ pc' = "final"
            /\ UNCHANGED <<n_cards, game_values, it>>
    /\ UNCHANGED <<game_size, game_state, strategies, outcome>>

\* line 248, when the iterator of line 236 is exhausted, and the next
\* iteration of the loop of line 230 or its end
EndLevel ==
    /\ UNCHANGED NotGops
    /\ pc = "level"
    /\ it = Len(of_size(n_cards, game_size))
    /\ cached_game_values' = game_values
    /\ IF n_cards + 1 <= game_size - 1
       THEN /\ n_cards' = n_cards + 1
            /\ game_values' = <<>>
            /\ it' = 0
            /\ pc' = "level"
       ELSE /\ pc' = "final"
            /\ UNCHANGED <<n_cards, game_values, it>>
    /\ UNCHANGED <<game_size, game_state, strategies, outcome>>

\* lines 252-255: the first state of full size; itertools.combinations raises
\* ValueError for a negative size
FinalState ==
    /\ UNCHANGED NotGops
    /\ pc = "final"
    /\ IF game_size < 0
       THEN /\ pc' = "error"
            /\ outcome' = "ValueError"
            /\ UNCHANGED <<game_state, strategies>>
       ELSE /\ game_state' = of_size(game_size, game_size)[1]
            /\ strategies' = <<>>
            /\ pc' = "final_strategies"
            /\ outcome' = outcome
    /\ UNCHANGED <<game_size, n_cards, cached_game_values, game_values, it>>

\* line 256
Return ==
    /\ UNCHANGED NotGops
    /\ pc = "return"
    /\ pc' = "done"
    /\ outcome' = "returned"
    /\ UNCHANGED <<game_size, n_cards, cached_game_values, game_values, it,
                   game_state, strategies>>

-----------------------------------------------------------------------------
(* payoff_matrix.py: GameRound, GameState (the deck is a tuple), ValueCache *)

GameRound(player_move, opponent_move, deck_card) ==
    [player_move |-> player_move, opponent_move |-> opponent_move,
     deck_card |-> deck_card]

\* GameState of payoff_matrix.py; deck_cards is a sequence
PmGameState(player_cards, opponent_cards, deck_cards) ==
    [player_cards |-> player_cards, opponent_cards |-> opponent_cards,
     deck_cards |-> deck_cards]

\* GameState.__post_init__ of payoff_matrix.py: the assertion holds
post_init(self) ==
    /\ Cardinality(self.player_cards) = Cardinality(self.opponent_cards)
    /\ Cardinality(self.opponent_cards) = Len(self.deck_cards)

\* GameState.of_size of payoff_matrix.py as the sequence of states it yields
\* (both assertions hold: size >= 0 and max_card >= 1)
pm_of_size(size, max_card) ==
    LET hands == combinations(1, max_card, size)
        decks == permutations(card_range(max_card), size)
        nh == Len(hands)
        nd == Len(decks)
    IN  [k \in 1..(nh * nh * nd) |->
            PmGameState(Range(hands[((k - 1) \div (nh * nd)) + 1]),
                        Range(hands[(((k - 1) \div nd) % nh) + 1]),
                        decks[((k - 1) % nd) + 1])]

\* GameState.opposite of payoff_matrix.py
pm_opposite(self) ==
    PmGameState(self.opponent_cards, self.player_cards, self.deck_cards)

\* possible_moves over the pairs of itertools.combinations_with_replacement
\* instead of product
possible_moves_bug(self) ==
    {<<GameRound(player_card, opponent_card, self.deck_cards[1]),
       PmGameState(self.player_cards \ {player_card},
                   self.opponent_cards \ {opponent_card},
                   Tail(self.deck_cards))>> :
        <<player_card, opponent_card>> \in
            {pair \in self.player_cards \X self.opponent_cards :
                pair[1] <= pair[2]}}

\* GameState.possible_moves: the (game round, next state) pairs it yields
possible_moves(self) ==
    {<<GameRound(player_card, opponent_card, self.deck_cards[1]),
       PmGameState(self.player_cards \ {player_card},
                   self.opponent_cards \ {opponent_card},
                   Tail(self.deck_cards))>> :
        player_card \in self.player_cards, opponent_card \in self.opponent_cards}

\* __getitem__ that returns the opposite state's value as it is stored
ValueCache_getitem_bug(cache_values, state) ==
    IF state.player_cards = state.opponent_cards
    THEN [kind |-> "value", value |-> RZero]
    ELSE IF state \in DOMAIN cache_values
    THEN [kind |-> "value", value |-> cache_values[state]]
    ELSE IF pm_opposite(state) \in DOMAIN cache_values
    THEN [kind |-> "value", value |-> cache_values[pm_opposite(state)]]
    ELSE [kind |-> "KeyError", value |-> RZero]

\* ValueCache.__getitem__: [kind |-> "value", value |-> v] when it returns v,
\* [kind |-> "KeyError", ...] when it raises
ValueCache_getitem(cache_values, state) ==
    IF state.player_cards = state.opponent_cards
    THEN [kind |-> "value", value |-> RZero]
    ELSE IF state \in DOMAIN cache_values
    THEN [kind |-> "value", value |-> cache_values[state]]
    ELSE IF pm_opposite(state) \in DOMAIN cache_values
    THEN [kind |-> "value", value |-> RNeg(cache_values[pm_opposite(state)])]
    ELSE [kind |-> "KeyError", value |-> RZero]

\* get that looks the state itself up and nothing else
ValueCache_get_bug(cache_values, state) ==
    IF state \in DOMAIN cache_values
    THEN [kind |-> "value", value |-> cache_values[state]]
    ELSE [kind |-> "None", value |-> RZero]

\* ValueCache.get: KeyError becomes None
ValueCache_get(cache_values, state) ==
    LET item == ValueCache_getitem(cache_values, state)
    IN  IF item.kind = "KeyError"
        THEN [kind |-> "None", value |-> RZero]
        ELSE item

\* ValueCache.__setitem__: the new contents
ValueCache_setitem(cache_values, state, player_value) ==
    DictSet(cache_values, state, player_value)

\* move_value that leaves out the value of the remaining game
move_value_bug(game_round, remaining_game_value) ==
    RInt(game_round.deck_card
           * sign(game_round.player_move - game_round.opponent_move))

\* move_value of payoff_matrix.py
move_value(game_round, remaining_game_value) ==
    RAdd(RInt(game_round.deck_card
                * sign(game_round.player_move - game_round.opponent_move)),
         remaining_game_value)

-----------------------------------------------------------------------------
(* payoff_matrix.py: compute_payoff_matrix                                 *)

PmInit ==
    /\ max_cards \in 0..MaxCards
    /\ pm_pc = "start"
    /\ pm_n_cards = 0
    /\ previous_value_cache = <<>>
    /\ current_value_cache = <<>>
    /\ pm_it = 0
    /\ matrix = <<>>
    /\ pm_outcome = "running"

\* line 150, and entering the level loop of line 151 or skipping it
PmStart ==
    /\ UNCHANGED NotPm
    /\ pm_pc = "start"
    /\ previous_value_cache' = <<>>
    /\ current_value_cache' = <<>>
    /\ pm_it' = 0
    /\ IF 1 < max_cards
       THEN /\ pm_pc' = "level"
            /\ pm_n_cards' = 1
       ELSE /\ pm_pc' = "starting"
            /\ pm_n_cards' = pm_n_cards
    /\ UNCHANGED <<max_cards, matrix, pm_outcome>>

\* some previous_value_cache[next_game_state] of lines 161-162 raises KeyError
MovesMiss(cache_values, state) ==
    \E move \in possible_moves(state) :
        ValueCache_getitem(cache_values, move[2]).kind = "KeyError"

\* the values move_value(...) of lines 162-163 (or 179-180), one per move
MoveValues(cache_values, state) ==
    [move \in possible_moves(state) |->
        move_value(move[1], ValueCache_getitem(cache_values, move[2]).value)]

\* lines 159-166: sum_values / n_rounds over the moves of the state
expected_game_value(cache_values, state) ==
    RDivInt(RSumOver(MoveValues(cache_values, state), possible_moves(state)),
            Cardinality(possible_moves(state)))

\* lines 155-167: one iteration of the loop over the states of a level
PmResolveState ==
    /\ UNCHANGED NotPm
    /\ pm_pc = "level"
    /\ pm_it < Len(pm_of_size(pm_n_cards, max_cards))
    /\ pm_it' = pm_it + 1
    /\ LET state == pm_of_size(pm_n_cards, max_cards)[pm_it + 1]
           n_rounds == Cardinality(possible_moves(state))
       IN  IF ValueCache_get(current_value_cache, state).kind # "None"
           THEN UNCHANGED <<pm_pc, current_value_cache, pm_outcome>>
           ELSE IF MovesMiss(previous_value_cache, state)
           THEN /\ pm_pc' = "error"
                /\ pm_outcome' = "KeyError"
                /\ UNCHANGED current_value_cache
           ELSE IF n_rounds = 0
           THEN /\ pm_pc' = "error"
                /\ pm_outcome' = "ZeroDivisionError"
                /\ UNCHANGED current_value_cache
           ELSE /\ current_value_cache' =
                       ValueCache_setitem(current_value_cache, state,
                                          expected_game_value(previous_value_cache,
                                                              state))
                /\ UNCHANGED <<pm_pc, pm_outcome>>
    /\ UNCHANGED <<max_cards, pm_n_cards, previous_value_cache, matrix>>

\* line 173, when the iterator of line 155 is exhausted, and the next
\* iteration of the loop of line 151 or its end
PmEndLevel ==
    /\ UNCHANGED NotPm
    /\ pm_pc = "level"
    /\ pm_it = Len(pm_of_size(pm_n_cards, max_cards))
    /\ previous_value_cache' = current_value_cache
    /\ pm_it' = 0
    /\ IF pm_n_cards + 1 < max_cards
       THEN /\ pm_n_cards' = pm_n_cards + 1
            /\ current_value_cache' = <<>>
            /\ pm_pc' = "level"
       ELSE /\ pm_pc' = "starting"
            /\ UNCHANGED <<pm_n_cards, current_value_cache>>
    /\ UNCHANGED <<max_cards, matrix, pm_outcome>>

\* matrix after lines 178-186 ran for one starting state: every move's value
\* is appended to the list of its key
AppendMoves(m, cache_values, state) ==
    LET move_values == MoveValues(cache_values, state)
        MoveOf(key) == CHOOSE move \in possible_moves(state) :
                           /\ move[1].player_move = key[1]
                           /\ move[1].opponent_move = key[2]
        keys == {<<move[1].player_move, move[1].opponent_move>> :
                    move \in possible_moves(state)}
    IN  [key \in (DOMAIN m) \cup keys |->
            IF key \in keys
            THEN (IF key \in DOMAIN m THEN m[key] ELSE <<>>)
                   \o <<move_values[MoveOf(key)]>>
            ELSE m[key]]

\* lines 177-186: one iteration of the loop over the starting states; of_size
\* asserts max_card >= 1 when its first state is asked for
PmStartingState ==
    /\ UNCHANGED NotPm
    /\ pm_pc = "starting"
    /\ IF max_cards < 1
       THEN /\ pm_pc' = "error"
            /\ pm_outcome' = "AssertionError"
            /\ UNCHANGED <<pm_it, matrix>>
       ELSE /\ pm_it < Len(pm_of_size(max_cards, max_cards))
            /\ pm_it' = pm_it + 1
            /\ LET state == pm_of_size(max_cards, max_cards)[pm_it + 1]
               IN  IF MovesMiss(previous_value_cache, state)
                   THEN /\ pm_pc' = "error"
                        /\ pm_outcome' = "KeyError"
                        /\ UNCHANGED matrix
                   ELSE /\ matrix' = AppendMoves(matrix, previous_value_cache, state)
                        /\ UNCHANGED <<pm_pc, pm_outcome>>
    /\ UNCHANGED <<max_cards, pm_n_cards, previous_value_cache,
                   current_value_cache>>

\* lines 189-193: every list becomes its mean, and the matrix is returned
PmReturn ==
    /\ UNCHANGED NotPm
    /\ pm_pc = "starting"
    /\ max_cards >= 1
    /\ pm_it = Len(pm_of_size(max_cards, max_cards))
    /\ matrix' = [move \in DOMAIN matrix |->
                     RDivInt(RSumSeq(matrix[move]), Len(matrix[move]))]
    /\ pm_pc' = "done"
    /\ pm_outcome' = "returned"
    /\ UNCHANGED <<max_cards, pm_n_cards, previous_value_cache,
                   current_value_cache, pm_it>>

-----------------------------------------------------------------------------
(* payoff_matrix.py: a ValueCache used on its own                          *)

\* the states a ValueCache is asked about: the empty state and every one-card
\* GameState of payoff_matrix.py over the cards 1..CacheMaxCard (the states
\* that pass __post_init__ with at most one card in each collection)
CacheStates ==
    {st \in {PmGameState(p, o, d) :
                p \in {{}} \cup {{c} : c \in card_range(CacheMaxCard)},
                o \in {{}} \cup {{c} : c \in card_range(CacheMaxCard)},
                d \in {<<>>} \cup {<<c>> : c \in card_range(CacheMaxCard)}} :
        post_init(st)}

\* the values stored: a negative one, zero and a positive one
CacheValues == {RInt(-1), RZero, RInt(1)}

CacheInit ==
    /\ values = <<>>
    /\ ret = [call |-> "none", kind |-> "none"]

\* cache[state] = player_value
SetItem(state, player_value) ==
    /\ UNCHANGED NotCache
    /\ \/ state \in DOMAIN values
       \/ Cardinality(DOMAIN values) < MaxCacheKeys
    /\ values' = ValueCache_setitem(values, state, player_value)
    /\ ret' = [call |-> "setitem", kind |-> "none"]

\* cache[state]
GetItem(state) ==
    /\ UNCHANGED NotCache
    /\ LET item == ValueCache_getitem(values, state)
       IN  ret' = [call |-> "getitem", kind |-> item.kind, state |-> state,
                   value |-> item.value]
    /\ UNCHANGED values

-----------------------------------------------------------------------------
(* strategy.py: find_nash_equilibrium and its two linear programs          *)

\* a solved program: the value of its variable v
NoLp == [v |-> RZero, solved |-> FALSE]
SolvedLp(v) == [v |-> v, solved |-> TRUE]

NashIdle ==
    /\ nash_max_card = 0 /\ nash_payoff_matrix = <<>> /\ nash_pc = "idle"
    /\ player_lp = NoLp /\ opponent_lp = NoLp /\ nash_outcome = "idle"

\* the entries of the payoff matrices find_nash_equilibrium is called with
NashPayoffs == {RInt(-1), RZero, RInt(1)}

\* optimize_player_strategy of strategy.py, lines 19-28: for every
\* opponent_card the constraint
\*     sum_i payoff_matrix[(opponent_card, i)] * x_i - v >= 0,
\* sum x = 1, x >= 0, maximize v.  This is the program of gops.py over the
\* matrix whose entry (player_card, opponent_card) is
\* payoff_matrix[(opponent_card, player_card)].  The set of values of v at
\* the optimal vertices.
strategy_optimize_player_strategy(mc, pm) ==
    LET transposed == [k \in card_range(mc) \X card_range(mc) |->
                          pm[<<k[2], k[1]>>]]
    IN  {st.expected_value :
            st \in optimize_player_strategy(card_range(mc), card_range(mc),
                                            transposed)}

\* optimize_opponent_strategy of strategy.py, lines 40-49: for every
\* player_card the constraint
\*     sum_i payoff_matrix[(player_card, i)] * y_i - v <= 0,
\* sum y = 1, y >= 0, minimize v.  With w = -v this is: maximize w under
\*     sum_i (-payoff_matrix[(player_card, i)]) * y_i - w >= 0,
\* the program of gops.py over the matrix whose entry (i, player_card) is
\* -payoff_matrix[(player_card, i)].  The set of values of v at the optimal
\* vertices.
optimize_opponent_strategy(mc, pm) ==
    LET negated == [k \in card_range(mc) \X card_range(mc) |->
                       RNeg(pm[<<k[2], k[1]>>])]
    IN  {RNeg(st.expected_value) :
            st \in optimize_player_strategy(card_range(mc), card_range(mc),
                                            negated)}

NashInit ==
    /\ nash_max_card \in 1..NashMaxCard
    /\ nash_payoff_matrix \in
          [card_range(nash_max_card) \X card_range(nash_max_card) -> NashPayoffs]
    /\ nash_pc = "player"
    /\ player_lp = NoLp
    /\ opponent_lp = NoLp
    /\ nash_outcome = "running"

\* line 7
NashPlayerLp ==
    /\ UNCHANGED NotNash
    /\ nash_pc = "player"
    /\ \E v \in strategy_optimize_player_strategy(nash_max_card,
                                                  nash_payoff_matrix) :
          player_lp' = SolvedLp(v)
    /\ nash_pc' = "opponent"
    /\ UNCHANGED <<nash_max_card, nash_payoff_matrix, opponent_lp,
                   nash_outcome>>

\* line 8
NashOpponentLp ==
    /\ UNCHANGED NotNash
    /\ nash_pc = "opponent"
    /\ \E v \in optimize_opponent_strategy(nash_max_card, nash_payoff_matrix) :
          opponent_lp' = SolvedLp(v)
    /\ nash_pc' = "assert"
    /\ UNCHANGED <<nash_max_card, nash_payoff_matrix, player_lp,
                   nash_outcome>>

\* line 10: the assertion, then the return
NashAssert ==
    /\ UNCHANGED NotNash
    /\ nash_pc = "assert"
    /\ IF player_lp.v = opponent_lp.v
       THEN nash_pc' = "done" /\ nash_outcome' = "returned"
       ELSE nash_pc' = "error" /\ nash_outcome' = "AssertionError"
    /\ UNCHANGED <<nash_max_card, nash_payoff_matrix, player_lp, opponent_lp>>

-----------------------------------------------------------------------------
(* Specifications *)

\* the two orchestrators
Init ==
    \/ GopsInit /\ PmIdle /\ StateIdle /\ CacheIdle /\ NashIdle
    \/ PmInit /\ GopsIdle /\ StateIdle /\ CacheIdle /\ NashIdle

Next ==
    \/ Start
    \/ NextState
    \/ StrategiesBase
    \/ \E top_card \in game_state.deck_cards : StrategiesTopCard(top_card)
    \/ StrategiesReturn
    \/ StoreValue
    \/ EndLevel
    \/ FinalState
    \/ Return
    \/ PmStart
    \/ PmResolveState
    \/ PmEndLevel
    \/ PmStartingState
    \/ PmReturn

Spec == Init /\ [][Next]_vars

\* GameState values and their methods
InitState == StateInit /\ GopsIdle /\ PmIdle /\ CacheIdle /\ NashIdle

NextOfState ==
    \/ Opposite
    \/ \E r \in card_range(MaxCard), p \in card_range(MaxCard),
          o \in card_range(MaxCard) : AfterRound(r, p, o)

SpecState == InitState /\ [][NextOfState]_vars

\* a ValueCache and its methods
InitCache == CacheInit /\ GopsIdle /\ PmIdle /\ StateIdle /\ NashIdle

NextOfCache ==
    \/ \E state \in CacheStates, v \in CacheValues : SetItem(state, v)
    \/ \E state \in CacheStates : GetItem(state)

SpecCache == InitCache /\ [][NextOfCache]_vars

\* find_nash_equilibrium called with any matrix over cards 1..max_card
InitNash == NashInit /\ GopsIdle /\ PmIdle /\ StateIdle /\ CacheIdle

NextOfNash ==
    \/ NashPlayerLp
    \/ NashOpponentLp
    \/ NashAssert

SpecNash == InitNash /\ [][NextOfNash]_vars

-----------------------------------------------------------------------------
(* Properties *)

\* the Strategy that plays `card` with probability 1 out of the cards 1..n
Mirror(card, n) == [k \in card_range(n) |-> IF k = card THEN ROne ELSE RZero]

C2_PayoffMatrix ==
    (pm_pc = "done" /\ max_cards \in {1, 2, 3}) =>
        /\ DOMAIN matrix = card_range(max_cards) \X card_range(max_cards)
        /\ \A move \in DOMAIN matrix :
              matrix[move] =
                  IF max_cards < 3 THEN RZero
                  ELSE IF move \in {<<1, 2>>, <<2, 3>>, <<3, 1>>} THEN RInt(-1)
                  ELSE IF move \in {<<1, 3>>, <<2, 1>>, <<3, 2>>} THEN RInt(1)
                  ELSE RZero

C2_Witness ==
    /\ pm_pc = "done"
    /\ max_cards = 3
    /\ matrix[<<1, 2>>] = RInt(-1)

\* the orchestrator of gops.py is resolving the states of level n_cards
InLevel == pc \in {"level", "strategies", "value"}

\* C3: for every resolved state s of the current level with opposite(s) # s,
\* the per-state computation (payoff matrix per top card, equilibrium value,
\* mean over top cards) applied to opposite(s) raises nothing and gives the
\* negation of the value stored for s, which is also what the negate-on-read
\* lookup of opposite(s) returns.
C3_OppositeValueNegated ==
    InLevel =>
        \A st \in DOMAIN game_values :
            opposite(st) # st =>
                /\ ~StrategiesMiss(opposite(st), cached_game_values)
                /\ get_strategies_for_possible_top_cards(
                       opposite(st), cached_game_values) # {}
                /\ \A strats \in get_strategies_for_possible_top_cards(
                                     opposite(st), cached_game_values) :
                      /\ GameValue(strats) = RNeg(game_values[st])
                      /\ opposite(st) \notin DOMAIN game_values =>
                            ContinuationValue(game_values, opposite(st))
                                = GameValue(strats)

\* C3 witness: a two-card state with different hands and a value that is not
\* an integer is resolved
C3_Witness ==
    /\ InLevel
    /\ n_cards = 2
    /\ \E st \in DOMAIN game_values :
          /\ opposite(st) # st
          /\ game_values[st][2] > 1

\* get_strategies_for_possible_top_cards has just returned `strategies`
StrategiesReturned == pc \in {"value", "return"}

\* C4: every map returned by get_strategies_for_possible_top_cards for a state
\* with a non-empty deck is keyed by exactly the cards of the deck, and each of
\* its Strategy values has card_probabilities keyed by exactly the cards of
\* the player hand, every probability non-negative, the probabilities summing
\* to 1.
C4_StrategyIsDistribution ==
    (StrategiesReturned /\ game_state.deck_cards # {}) =>
        /\ DOMAIN strategies = game_state.deck_cards
        /\ \A top_card \in DOMAIN strategies :
              LET x == strategies[top_card].card_probabilities
              IN  /\ DOMAIN x = game_state.player_cards
                  /\ \A card \in DOMAIN x : RLeq(RZero, x[card])
                  /\ RSumOver(x, DOMAIN x) = ROne

\* C4 witness: a returned map with a properly mixed strategy
C4_Witness ==
    /\ StrategiesReturned
    /\ Cardinality(game_state.deck_cards) = 2
    /\ \E top_card \in DOMAIN strategies :
          \E card \in game_state.player_cards :
              /\ RLess(RZero, strategies[top_card].card_probabilities[card])
              /\ RLess(strategies[top_card].card_probabilities[card], ROne)

\* C5: opposite(s) has the player and opponent hands swapped and the deck
\* unchanged, and opposite(opposite(s)) = s.
C5_OppositeSwaps ==
    /\ op.name = "opposite" =>
          /\ s.player_cards = before.opponent_cards
          /\ s.opponent_cards = before.player_cards
          /\ s.deck_cards = before.deck_cards
          /\ opposite(s) = before
    /\ opposite(opposite(s)) = s

C5_Witness ==
    /\ op.name = "opposite"
    /\ before.player_cards # before.opponent_cards
    /\ before.deck_cards # {}

\* the arguments of the last after_round call are members of the deck, the
\* player hand and the opponent hand of its receiver
MembersPlayed ==
    /\ op.name = "after_round"
    /\ op.revealed_card \in before.deck_cards
    /\ op.player_move \in before.player_cards
    /\ op.opponent_move \in before.opponent_cards

EqualSizes(st) ==
    /\ Cardinality(st.player_cards) = Cardinality(st.opponent_cards)
    /\ Cardinality(st.opponent_cards) = Cardinality(st.deck_cards)

\* C6: after_round with cards that are members of the deck, the player hand
\* and the opponent hand returns a state in which each collection is exactly
\* one card smaller and the removed cards are no longer members; a state with
\* equal sizes goes to a state with equal sizes, and a one-card state goes to
\* the empty state.
C6_AfterRoundRemovesOne ==
    MembersPlayed =>
        /\ op.result = "returned"
        /\ s.deck_cards = before.deck_cards \ {op.revealed_card}
        /\ s.player_cards = before.player_cards \ {op.player_move}
        /\ s.opponent_cards = before.opponent_cards \ {op.opponent_move}
        /\ Cardinality(s.deck_cards) = Cardinality(before.deck_cards) - 1
        /\ Cardinality(s.player_cards) = Cardinality(before.player_cards) - 1
        /\ Cardinality(s.opponent_cards) = Cardinality(before.opponent_cards) - 1
        /\ op.revealed_card \notin s.deck_cards
        /\ op.player_move \notin s.player_cards
        /\ op.opponent_move \notin s.opponent_cards
        /\ EqualSizes(before) => EqualSizes(s)
        /\ (EqualSizes(before) /\ Cardinality(before.deck_cards) = 1) => s = empty

C6_Witness ==
    /\ MembersPlayed
    /\ EqualSizes(before)
    /\ Cardinality(before.deck_cards) = 2
    /\ op.player_move # op.opponent_move

\* C7 as stated: for a deck size below 1 the orchestrator enumerates no state,
\* queries no strategy and returns no result map.
C7_SmallDeckRejected ==
    game_size < 1 => pc \notin {"final_strategies", "return", "done"}

\* C8 as stated: after_round with a revealed card not in the deck, a
\* player_move not in the player hand or an opponent_move not in the opponent
\* hand never returns a state.
C8_NonMemberRejected ==
    (op.name = "after_round" /\ ~MembersPlayed) => op.result # "returned"

\* every GameState of gops.py with `size` cards out of 1..max_card in each of
\* its collections
StatesOfSize(size, max_card) ==
    LET hands == {h \in SUBSET card_range(max_card) : Cardinality(h) = size}
    IN  {GameState(p, o, d) : p \in hands, o \in hands, d \in hands}

\* every lookup of a state of size `size` in the cache of gops.py succeeds
GopsCachePopulated(size) ==
    \A st \in StatesOfSize(size, game_size) : ~CacheMiss(cached_game_values, st)

\* every lookup of a state of size `size` in the previous ValueCache succeeds
PmCachePopulated(size) ==
    \A st \in Range(pm_of_size(size, max_cards)) :
        ValueCache_getitem(previous_value_cache, st).kind = "value"

\* C9: during a run for N >= 1 no continuation lookup misses: neither
\* orchestrator ever raises KeyError, and while the states of size n are being
\* resolved the cache they read answers for every state of size n - 1 (by the
\* state, by its opposite or, in payoff_matrix.py, by the mirrored shortcut).
C9_NoCacheMiss ==
    /\ outcome # "KeyError"
    /\ pm_outcome # "KeyError"
    /\ (game_size >= 1 /\ InLevel) => GopsCachePopulated(n_cards - 1)
    /\ (game_size >= 1 /\ pc \in {"final", "final_strategies", "return"}) =>
          GopsCachePopulated(game_size - 1)
    /\ pm_pc = "level" => PmCachePopulated(pm_n_cards - 1)
    /\ (max_cards >= 1 /\ pm_pc = "starting") => PmCachePopulated(max_cards - 1)

\* C9 witness: a state of two cards is resolved although the cache holds some
\* continuation only by its opposite
C9_Witness ==
    /\ pc = "value"
    /\ n_cards = 2
    /\ \E top_card \in game_state.deck_cards,
          player_move \in game_state.player_cards,
          opponent_move \in game_state.opponent_cards :
          LET continuation == after_round(game_state, top_card, player_move,
                                          opponent_move)
          IN  /\ continuation \notin DOMAIN cached_game_values
              /\ opposite(continuation) \in DOMAIN cached_game_values

\* what C10 says cache[state] does, for the cache contents v and the result r
ReadAsClaimed(v, r) ==
    LET st == r.state
        swapped == PmGameState(st.opponent_cards, st.player_cards, st.deck_cards)
    IN  IF st.player_cards = st.opponent_cards
        THEN r.kind = "value" /\ r.value = RZero
        ELSE IF st \in DOMAIN v
        THEN r.kind = "value" /\ r.value = v[st]
        ELSE IF swapped \in DOMAIN v
        THEN r.kind = "value" /\ r.value = RNeg(v[swapped])
        ELSE r.kind = "KeyError"

\* C10: for any cache contents and any state s, cache[s] returns 0 when both
\* hands of s are equal, whatever is stored; otherwise the stored value of s
\* when s is a key; otherwise the negation of the stored value of opposite(s)
\* when that is a key; otherwise it raises KeyError; and it leaves the cache
\* contents unchanged.
C10_CacheRead ==
    [][ret'.call = "getitem" =>
          /\ values' = values
          /\ ReadAsClaimed(values, ret')]_vars

\* C10 witness: a read answered by negating the non-zero stored value of the
\* opposite state
C10_Witness ==
    /\ ret.call = "getitem"
    /\ ret.kind = "value"
    /\ ret.state.player_cards # ret.state.opponent_cards
    /\ ret.state \notin DOMAIN values
    /\ pm_opposite(ret.state) \in DOMAIN values
    /\ values[pm_opposite(ret.state)] # RZero

\* the keys of a cache hold at most one state of every state/opposite pair
\* (swap gives the state with both hands exchanged)
OneDirection(keys, swap(_)) ==
    \A st \in keys : swap(st) # st => swap(st) \notin keys

\* every key of the gops.py cache has `size` cards in each collection
GopsKeysOfSize(keys, size) ==
    \A st \in keys :
        /\ Cardinality(st.player_cards) = size
        /\ Cardinality(st.opponent_cards) = size
        /\ Cardinality(st.deck_cards) = size

\* every key of the ValueCache has `size` cards in each collection
PmKeysOfSize(keys, size) ==
    \A st \in keys :
        /\ Cardinality(st.player_cards) = size
        /\ Cardinality(st.opponent_cards) = size
        /\ Len(st.deck_cards) = size

\* the keys of a completed cache hold exactly one state of every pair of a
\* state of `states` and its different opposite
ExactlyOneDirection(keys, states, swap(_)) ==
    \A st \in states :
        swap(st) # st => ((st \in keys) # (swap(st) \in keys))

\* the orchestrator of gops.py has left the level loop
AfterLevels == pc \in {"final", "final_strategies", "return", "done"}

\* C11: at every point of a run no level cache holds both a state s and
\* opposite(s) with opposite(s) # s, and every key of the cache of level n is
\* a state with exactly n cards in each collection: in gops.py game_values is
\* the cache of level n_cards and cached_game_values the one of the level
\* before (of the last level once the loop is left), in payoff_matrix.py
\* current_value_cache and previous_value_cache likewise.  A completed cache
\* holds exactly one direction of every pair of its level.
C11_OneCanonicalDirection ==
    /\ OneDirection(DOMAIN game_values, opposite)
    /\ OneDirection(DOMAIN cached_game_values, opposite)
    /\ OneDirection(DOMAIN current_value_cache, pm_opposite)
    /\ OneDirection(DOMAIN previous_value_cache, pm_opposite)
    /\ InLevel =>
          /\ GopsKeysOfSize(DOMAIN game_values, n_cards)
          /\ GopsKeysOfSize(DOMAIN cached_game_values, n_cards - 1)
          /\ ExactlyOneDirection(DOMAIN cached_game_values,
                                 StatesOfSize(n_cards - 1, game_size), opposite)
    /\ (AfterLevels /\ game_size >= 1) =>
          /\ GopsKeysOfSize(DOMAIN cached_game_values, game_size - 1)
          /\ ExactlyOneDirection(DOMAIN cached_game_values,
                                 StatesOfSize(game_size - 1, game_size), opposite)
    /\ pm_pc = "level" =>
          /\ PmKeysOfSize(DOMAIN current_value_cache, pm_n_cards)
          /\ PmKeysOfSize(DOMAIN previous_value_cache, pm_n_cards - 1)
          /\ pm_n_cards > 1 =>
                ExactlyOneDirection(DOMAIN previous_value_cache,
                                    Range(pm_of_size(pm_n_cards - 1, max_cards)),
                                    pm_opposite)
    /\ (pm_pc \in {"starting", "done"} /\ max_cards >= 1) =>
          /\ PmKeysOfSize(DOMAIN previous_value_cache, max_cards - 1)
          /\ max_cards > 1 =>
                ExactlyOneDirection(DOMAIN previous_value_cache,
                                    Range(pm_of_size(max_cards - 1, max_cards)),
                                    pm_opposite)

\* C11 witness: compute_payoff_matrix has just skipped a two-card state with
\* different hands because the cache of the level holds its opposite
C11_Witness ==
    /\ pm_pc = "level"
    /\ pm_n_cards = 2
    /\ pm_it >= 1
    /\ LET state == pm_of_size(pm_n_cards, max_cards)[pm_it]
       IN  /\ state.player_cards # state.opponent_cards
           /\ state \notin DOMAIN current_value_cache
           /\ pm_opposite(state) \in DOMAIN current_value_cache

\* every item of the dict `old` is in the dict `new` with the same value
ItemsKept(old, new) ==
    \A k \in DOMAIN old : k \in DOMAIN new /\ new[k] = old[k]

\* C12: during a run the value of a state is written to the cache of its level
\* at most once and never overwritten (a step within a level keeps every item
\* of the level's cache, and a step that changes the cache adds exactly the
\* state being resolved, which was not a key before), and the cache of the
\* level before is not modified while a level or the final state reads it;
\* resolving a state does not change the state.
C12_ResolvedOnce ==
    [][/\ (InLevel /\ InLevel' /\ n_cards' = n_cards) =>
             /\ cached_game_values' = cached_game_values
             /\ ItemsKept(game_values, game_values')
             /\ game_values' # game_values =>
                   /\ game_state \notin DOMAIN game_values
                   /\ DOMAIN game_values' = DOMAIN game_values \cup {game_state}
       /\ (AfterLevels /\ AfterLevels') =>
             cached_game_values' = cached_game_values
       /\ (InStrategies /\ pc' # "error") => game_state' = game_state
       /\ (pm_pc = "level" /\ pm_pc' = "level" /\ pm_n_cards' = pm_n_cards) =>
             /\ previous_value_cache' = previous_value_cache
             /\ ItemsKept(current_value_cache, current_value_cache')
             /\ current_value_cache' # current_value_cache =>
                   LET state == pm_of_size(pm_n_cards, max_cards)[pm_it']
                   IN  /\ state \notin DOMAIN current_value_cache
                       /\ DOMAIN current_value_cache'
                            = DOMAIN current_value_cache \cup {state}
       /\ pm_pc = "starting" => previous_value_cache' = previous_value_cache
      ]_vars

\* C12 witness: the second level of gops.py has resolved states while reading
\* the cache of the first level
C12_Witness ==
    /\ InLevel
    /\ n_cards = 2
    /\ Cardinality(DOMAIN game_values) >= 2
    /\ Cardinality(DOMAIN cached_game_values) >= 2

\* the states of payoff_matrix.py of the given size whose hands are equal
PmMirrored(size) ==
    {st \in Range(pm_of_size(size, max_cards)) :
        st.player_cards = st.opponent_cards}

\* the size of the states that read previous_value_cache at this point of
\* compute_payoff_matrix (0: none)
PmSizeSolved ==
    IF pm_pc = "level" THEN pm_n_cards
    ELSE IF pm_pc = "starting" /\ max_cards >= 1 THEN max_cards
    ELSE 0

\* C13: a state whose player hand equals its opponent hand has the value 0
\* when it is computed directly: in gops.py every such state stored in the
\* cache of a level has value 0 and the strategies of the full game have mean
\* value 0; in payoff_matrix.py the move average of every such state of the
\* level's size (and of the full size) over the cache of the level before is
\* 0, which is what ValueCache.__getitem__ returns for it without a lookup.
C13_MirroredValueZero ==
    /\ \A st \in DOMAIN game_values :
          st.player_cards = st.opponent_cards => game_values[st] = RZero
    /\ \A st \in DOMAIN cached_game_values :
          st.player_cards = st.opponent_cards => cached_game_values[st] = RZero
    /\ (pc \in {"return", "done"} /\ DOMAIN strategies # {}) =>
          GameValue(strategies) = RZero
    /\ PmSizeSolved >= 1 =>
          \A st \in PmMirrored(PmSizeSolved) :
             /\ ~MovesMiss(previous_value_cache, st)
             /\ expected_game_value(previous_value_cache, st) = RZero
             /\ ValueCache_getitem(current_value_cache, st).value
                  = expected_game_value(previous_value_cache, st)

\* C13 witness: gops.py has solved a two-card state with equal hands and
\* stored the value 0 for it
C13_Witness ==
    /\ InLevel
    /\ \E st \in DOMAIN game_values :
          /\ st.player_cards = st.opponent_cards
          /\ Cardinality(st.deck_cards) = 2
          /\ game_values[st] = RZero

\* C14: for every payoff matrix keyed by (player card, opponent card) the
\* programs of optimize_player_strategy and optimize_opponent_strategy of
\* strategy.py have the same value v, so that the assertion of
\* find_nash_equilibrium never fails.
C14_NashAssertionHolds ==
    /\ nash_outcome # "AssertionError"
    /\ nash_pc = "assert" => player_lp.v = opponent_lp.v

=============================================================================
